---- MODULE Spec2Model ----
(***************************************************************************)
(* SRTPlay: subtitle entries are grouped into word-bounded blocks          *)
(* (agrupar_blocos), each block is turned into a prompt (gerar_prompt) and *)
(* an image (gerar_imagem / gerar_imagem_replicate), and the Streamlit     *)
(* session keeps the block list and the generated images across the        *)
(* "Gerar Imagens" and "Reprocessar falhas" buttons.                       *)
(*                                                                         *)
(* The specifications of the module:                                       *)
(*   SpecSeg     agrupar_blocos, one loop iteration per step               *)
(*   SpecGen     gerar_imagem, one attempt per step                        *)
(*   SpecGenFair SpecGen, the function's steps being taken                 *)
(*   SpecPrompt  gerar_prompt, applied to a block text and a rewrite answer*)
(*   Spec        the session: run_all and reprocess_failed, one block per  *)
(*               step                                                      *)
(*   SpecConv    the session after one run_all, reprocess_failed pressed   *)
(*               again and again with empty filters, under fairness        *)
(***************************************************************************)
EXTENDS Integers, Sequences, FiniteSets, TLC

VARIABLES
    \* ---- agrupar_blocos (SpecSeg) ----
    subs,       \* the parsed subtitle entries: [start, end, text]
    min_w,      \* min_w argument
    max_w,      \* max_w argument
    s_i,        \* 1-based position of the for loop in subs
    blocos,     \* local list of blocks built so far
    txt,        \* accumulator of pending words
    start,      \* pending block start, NoStart for None
    seg_pc,     \* "loop" | "done"
    closedAt,   \* history: for each block closed in the loop, the entry index
    \* ---- gerar_imagem (SpecGen) ----
    tries,      \* tries argument
    g_log,      \* history: the responses of the capability calls made so far
    g_ret,      \* the return value, once returned
    g_pc,       \* "loop" | "returned"
    \* ---- the Streamlit session (Spec) ----
    app,            \* which script serves the session: "SRTPlay" | "SRTPlayMini"
    client_txt,     \* whether client_txt is set (SRTPlayMini: GEMINI_API_KEY2)
    imgs,           \* st.session_state["imgs"]
    st_blocos,      \* st.session_state["blocos"]
    selected_idxs,  \* index filter of the current script run
    selected_ts,    \* key filter of the current script run
    pc,             \* "idle" | "run_all_reset" | "run_all" | "reprocess"
    i,              \* 1-based loop index of the running handler
    gen_calls,      \* history: generations invoked per block by the running handler
    outcome,        \* history: per block, how its generation ended in the running handler
    status,         \* history: per block, "Pending" | "Succeeded" | "Skipped"
    imgs0,          \* history: imgs when reprocess_failed was invoked
    status0,        \* history: status when the button was pressed (in run_all:
                    \* until the upload is looked at, empty from then on)
    warned,         \* history: the block warnings shown by the running handler
    built,          \* history: prompts built per block by the running handler
    handed,         \* history: the last prompt handed to image generation
    \* ---- gerar_prompt (SpecPrompt) ----
    p_app,      \* the script whose gerar_prompt runs
    p_texto,    \* texto argument
    p_rw,       \* history: what the rewrite call answered
    p_ret,      \* the return value, once returned
    p_pc        \* "entry" | "returned"

varsSeg == <<subs, min_w, max_w, s_i, blocos, txt, start, seg_pc, closedAt>>

varsGen == <<tries, g_log, g_ret, g_pc>>

varsSes == <<app, client_txt, imgs, st_blocos, selected_idxs, selected_ts,
             pc, i, gen_calls, outcome, status, imgs0, status0,
             warned, built, handed>>

varsPr == <<p_app, p_texto, p_rw, p_ret, p_pc>>

vars == <<varsSeg, varsGen, varsSes, varsPr>>

-----------------------------------------------------------------------------
(* Bounds of the model *)

MaxEntries == 3     \* longest subtitle sequence
MaxW == 3           \* largest min_w / max_w
MaxTries == 3       \* largest tries argument of gerar_imagem
MaxUpload == 3      \* longest subtitle file uploaded in a session
MaxConv == 2        \* most blocks stored in a session of SpecConv

(* None, as the value of `start` (times are >= 0) *)
NoStart == -1

\* no generation call yet in the running handler
NoCall == [block |-> 0, prompt |-> <<>>]

Min(a, b) == IF a <= b THEN a ELSE b

MaxOf(S) == CHOOSE k \in S : \A j \in S : j <= k

-----------------------------------------------------------------------------
(* Text: a string is a sequence of one-character strings *)

\* whitespace, as str.split(), str.strip() and \s see it
IsSpace(c) == c \in {" ", "\n", "\t"}

\* str.replace("\n", " ")
ReplaceNewlines(text) ==
    [k \in 1..Len(text) |-> IF text[k] = "\n" THEN " " ELSE text[k]]

\* str.split(): the maximal runs of non-whitespace characters, in order
RECURSIVE SplitFrom(_, _, _)
SplitFrom(t, k, cur) ==
    IF k > Len(t)
    THEN IF cur = <<>> THEN <<>> ELSE <<cur>>
    ELSE IF IsSpace(t[k])
         THEN (IF cur = <<>> THEN <<>> ELSE <<cur>>) \o SplitFrom(t, k + 1, <<>>)
         ELSE SplitFrom(t, k + 1, Append(cur, t[k]))

Split(t) == SplitFrom(t, 1, <<>>)

\* s.text.replace("\n"," ").split()
Words(text) == Split(ReplaceNewlines(text))

\* " ".join(ws)
RECURSIVE Join(_)
Join(ws) ==
    IF ws = <<>> THEN <<>>
    ELSE IF Len(ws) = 1 THEN ws[1]
    ELSE ws[1] \o <<" ">> \o Join(Tail(ws))

\* lst[:n] for n >= 0
Take(lst, n) == SubSeq(lst, 1, Min(n, Len(lst)))

-----------------------------------------------------------------------------
(* agrupar_blocos *)

\* faulty variant: the zero offset counts as false, as a number would
TruthyZeroFalse(t) == t # NoStart /\ t # 0
\* Truth value of `start` in `start or s.start`: None is false, a
\* SubRipTime object (which defines neither __bool__ nor __len__) is true,
\* the zero offset included.
Truthy(t) == t # NoStart

\* start or s.start
StartOr(st, sstart) == IF Truthy(st) THEN st ELSE sstart

\* faulty variant: the closed block keeps every accumulated word
ClosedBlockNoCut(st, s, acc, mw) ==
    [start |-> st, end |-> s.end, text |-> Join(acc)]

\* the block appended inside the loop
ClosedBlock(st, s, acc, mw) ==
    [start |-> st, end |-> s.end, text |-> Join(Take(acc, mw))]

\* faulty variant: the trailing block ends with the last entry that had words
TrailingBlockLastWordy(st, ss, acc) ==
    LET last == CHOOSE k \in 1..Len(ss) :
                    /\ Words(ss[k].text) # <<>>
                    /\ \A j \in (k + 1)..Len(ss) : Words(ss[j].text) = <<>>
    IN [start |-> st, end |-> ss[last].end, text |-> Join(acc)]

\* the block appended after the loop
TrailingBlock(st, ss, acc) ==
    [start |-> st, end |-> ss[Len(ss)].end, text |-> Join(acc)]

\* the locals at function entry
SegEntry == [blocos |-> <<>>, txt |-> <<>>, start |-> NoStart]

\* faulty variant: the pending start is not reset when a block closes
LoopBodyNoReset(loc, s, mn, mx) ==
    LET words == Words(s.text) IN
    IF words = <<>> THEN loc
    ELSE LET st  == StartOr(loc.start, s.start)
             acc == loc.txt \o words
         IN IF Len(acc) >= mn
            THEN [blocos |-> Append(loc.blocos, ClosedBlock(st, s, acc, mx)),
                  txt |-> <<>>, start |-> st]
            ELSE [blocos |-> loc.blocos, txt |-> acc, start |-> st]

\* faulty variant: the accumulator keeps its words when a block closes
LoopBodyNoClear(loc, s, mn, mx) ==
    LET words == Words(s.text) IN
    IF words = <<>> THEN loc
    ELSE LET st  == StartOr(loc.start, s.start)
             acc == loc.txt \o words
         IN IF Len(acc) >= mn
            THEN [blocos |-> Append(loc.blocos, ClosedBlock(st, s, acc, mx)),
                  txt |-> acc, start |-> NoStart]
            ELSE [blocos |-> loc.blocos, txt |-> acc, start |-> st]

\* faulty variant: a block closes only beyond min_w words
LoopBodyStrict(loc, s, mn, mx) ==
    LET words == Words(s.text) IN
    IF words = <<>> THEN loc
    ELSE LET st  == StartOr(loc.start, s.start)
             acc == loc.txt \o words
         IN IF Len(acc) > mn
            THEN [blocos |-> Append(loc.blocos, ClosedBlock(st, s, acc, mx)),
                  txt |-> <<>>, start |-> NoStart]
            ELSE [blocos |-> loc.blocos, txt |-> acc, start |-> st]

\* one iteration of `for s in subs` on the locals loc
LoopBody(loc, s, mn, mx) ==
    LET words == Words(s.text) IN
    IF words = <<>> THEN loc
    ELSE LET st  == StartOr(loc.start, s.start)
             acc == loc.txt \o words
         IN IF Len(acc) >= mn
            THEN [blocos |-> Append(loc.blocos, ClosedBlock(st, s, acc, mx)),
                  txt |-> <<>>, start |-> NoStart]
            ELSE [blocos |-> loc.blocos, txt |-> acc, start |-> st]

\* `if txt: blocos.append(...)` and the return value
AfterLoop(loc, ss) ==
    IF loc.txt # <<>>
    THEN Append(loc.blocos, TrailingBlock(loc.start, ss, loc.txt))
    ELSE loc.blocos

RECURSIVE LoopFrom(_, _, _, _, _)
LoopFrom(loc, ss, k, mn, mx) ==
    IF k > Len(ss) THEN loc
    ELSE LoopFrom(LoopBody(loc, ss[k], mn, mx), ss, k + 1, mn, mx)

AgruparBlocos(ss, mn, mx) == AfterLoop(LoopFrom(SegEntry, ss, 1, mn, mx), ss)

-----------------------------------------------------------------------------
(* Inputs of the segmenter *)

\* texts of 0, 1 and 2 words; line breaks and repeated blanks included
SampleTexts ==
    { <<"\n", " ">>,
      <<"a">>,
      <<"b", "\n", "c">> }

\* (start, end) pairs in milliseconds, the zero offset included
SampleTimes == { <<0, 1>>, <<1, 2>>, <<2, 2>>, <<2, 3>> }

Entries ==
    { [start |-> tm[1], end |-> tm[2], text |-> t] :
        tm \in SampleTimes, t \in SampleTexts }

SubsOfLen(n) == [1..n -> Entries]

\* gerar_imagem not running
\* gerar_prompt not running
PrParked ==
    /\ p_app = "SRTPlay"
    /\ p_texto = <<>>
    /\ p_rw = [kind |-> "raise", text |-> <<>>]
    /\ p_ret = <<>>
    /\ p_pc = "returned"

GenParked ==
    /\ tries = 0
    /\ g_log = <<>>
    /\ g_ret = "None"
    /\ g_pc = "returned"

\* no session
SesParked ==
    /\ app = "SRTPlay"
    /\ client_txt = TRUE
    /\ imgs = <<>>
    /\ st_blocos = <<>>
    /\ selected_idxs = {}
    /\ selected_ts = {}
    /\ pc = "idle"
    /\ i = 1
    /\ gen_calls = <<>>
    /\ outcome = <<>>
    /\ status = <<>>
    /\ imgs0 = <<>>
    /\ status0 = <<>>
    /\ warned = <<>>
    /\ built = <<>>
    /\ handed = NoCall

InitSeg ==
    /\ GenParked
    /\ SesParked
    /\ PrParked
    /\ \E n \in 0..MaxEntries : subs \in SubsOfLen(n)
    /\ min_w \in 1..MaxW
    /\ max_w \in min_w..MaxW      \* the configuration contract: max_w >= min_w
    /\ s_i = 1
    /\ blocos = SegEntry.blocos
    /\ txt = SegEntry.txt
    /\ start = SegEntry.start
    /\ seg_pc = "loop"
    /\ closedAt = <<>>

\* one iteration of the for loop
SegLoop ==
    /\ seg_pc = "loop"
    /\ s_i <= Len(subs)
    /\ LET loc == LoopBody([blocos |-> blocos, txt |-> txt, start |-> start],
                           subs[s_i], min_w, max_w)
       IN /\ blocos' = loc.blocos
          /\ txt' = loc.txt
          /\ start' = loc.start
          /\ closedAt' = IF Len(loc.blocos) > Len(blocos)
                         THEN Append(closedAt, s_i) ELSE closedAt
    /\ s_i' = s_i + 1
    /\ UNCHANGED <<subs, min_w, max_w, seg_pc>>
    /\ UNCHANGED <<varsGen, varsSes, varsPr>>

\* the statements after the loop, and the return
SegReturn ==
    /\ seg_pc = "loop"
    /\ s_i > Len(subs)
    /\ blocos' = AfterLoop([blocos |-> blocos, txt |-> txt, start |-> start], subs)
    /\ seg_pc' = "done"
    /\ UNCHANGED <<subs, min_w, max_w, s_i, txt, start, closedAt>>
    /\ UNCHANGED <<varsGen, varsSes, varsPr>>

NextSeg == SegLoop \/ SegReturn

SpecSeg == InitSeg /\ [][NextSeg]_vars

-----------------------------------------------------------------------------
(* clean_prompt and gerar_prompt *)

\* t has pat at position k
MatchAt(t, k, pat) ==
    /\ k >= 1
    /\ k + Len(pat) - 1 <= Len(t)
    /\ SubSeq(t, k, k + Len(pat) - 1) = pat

\* first position >= k of t that is not whitespace (Len(t) + 1 if none): \s*
RECURSIVE SkipSpace(_, _)
SkipSpace(t, k) ==
    IF k <= Len(t) /\ IsSpace(t[k]) THEN SkipSpace(t, k + 1) ELSE k

\* number of "*" at positions k, k+1 (at most two): \*{0,2}
StarsAt(t, k) ==
    IF k <= Len(t) /\ t[k] = "*"
    THEN IF k + 1 <= Len(t) /\ t[k + 1] = "*" THEN 2 ELSE 1
    ELSE 0

LitPrompt == <<"P", "r", "o", "m", "p", "t">>

\* Prompt\*{0,2}:\s* matched with "Prompt" at k: the position after the
\* match, 0 when it does not match there
LabelEnd(t, k) ==
    IF ~MatchAt(t, k, LitPrompt) THEN 0
    ELSE LET a == k + Len(LitPrompt)
             colon == { c \in 0..StarsAt(t, a) :
                           a + c <= Len(t) /\ t[a + c] = ":" }
         IN IF colon = {} THEN 0
            ELSE SkipSpace(t, a + MaxOf(colon) + 1)

\* parts = re.split(r"\*{0,2}Prompt\*{0,2}:\s*", raw);
\* body = parts[-1] if len(parts) > 1 else raw
AfterLabel(raw) ==
    LET ks == { k \in 1..Len(raw) : LabelEnd(raw, k) # 0 } IN
    IF ks = {} THEN raw
    ELSE SubSeq(raw, LabelEnd(raw, MaxOf(ks)), Len(raw))

LitHeres == { <<"H", "e", "r", "e", "'", "s", " ", "a", " ">>,
              <<"H", "e", "r", "e", "U+2019", "s", " ", "a", " ">> }

\* re.sub(r"^Here(?:'|U+2019)s a [^:]+:\s*", "", body); the character
\* U+2019 (right single quotation mark) is written "U+2019"
DropPreamble(body) ==
    IF \E h \in LitHeres : MatchAt(body, 1, h)
    THEN LET a == 10
             cs == { c \in a..Len(body) : body[c] = ":" }
         IN IF cs = {} THEN body
            ELSE LET c == CHOOSE x \in cs : \A y \in cs : x <= y IN
                 IF c = a THEN body
                 ELSE SubSeq(body, SkipSpace(body, c + 1), Len(body))
    ELSE body

\* body.replace("*", "")
RECURSIVE DropStars(_)
DropStars(t) ==
    IF t = <<>> THEN <<>>
    ELSE IF Head(t) = "*" THEN DropStars(Tail(t))
    ELSE <<Head(t)>> \o DropStars(Tail(t))

\* .strip()
RECURSIVE StripRight(_)
StripRight(t) ==
    IF t # <<>> /\ IsSpace(t[Len(t)]) THEN StripRight(SubSeq(t, 1, Len(t) - 1))
    ELSE t

Strip(t) == StripRight(SubSeq(t, SkipSpace(t, 1), Len(t)))

\* re.sub(r"\s+", " ", body)
RECURSIVE CollapseSpace(_)
CollapseSpace(t) ==
    IF t = <<>> THEN <<>>
    ELSE IF IsSpace(Head(t))
         THEN <<" ">> \o CollapseSpace(SubSeq(t, SkipSpace(t, 1), Len(t)))
         ELSE <<Head(t)>> \o CollapseSpace(Tail(t))

clean_prompt(raw) == CollapseSpace(Strip(DropStars(DropPreamble(AfterLabel(raw)))))

\* str.startswith
StartsWith(t, pre) == MatchAt(t, 1, pre) \/ pre = <<>>

\* texto[:10]
EchoPrefixLen == 10

\* STYLE_SUFFIX of each script, abbreviated to its first word
STYLE_SUFFIX(ap) ==
    IF ap = "SRTPlay"
    THEN <<"a", "b", "s", "t", "r", "a", "c", "t">>
    ELSE <<"C", "i", "n", "e", "m", "a", "t", "i", "c">>

\* f"{texto}, {STYLE_SUFFIX}"
Fallback(ap, texto) == texto \o <<",", " ">> \o STYLE_SUFFIX(ap)

\* faulty variant: any non-empty rewrite is used
UsableNonEmpty(prompt, texto) == prompt # <<>>

\* the rewritten prompt is used: `if prompt and not prompt.startswith(texto[:10])`
Usable(prompt, texto) ==
    /\ prompt # <<>>
    /\ ~StartsWith(prompt, Take(texto, EchoPrefixLen))

\* gerar_prompt, when the rewrite call answers rw: an exception anywhere in
\* the try block, or a first part whose text is rw.text (None becomes "")
gerar_prompt(ap, texto, rw) ==
    IF rw.kind = "raise" THEN Fallback(ap, texto)
    ELSE LET prompt == clean_prompt(rw.text) IN
         IF Usable(prompt, texto) THEN prompt ELSE Fallback(ap, texto)

-----------------------------------------------------------------------------
(* gerar_imagem *)

\* A part of a response: a text part has no inline_data, an image part
\* carries inline_data whose data are the image bytes.
PartKinds == {"text", "image"}

\* part.inline_data
HasInlineData(part) == part = "image"

\* part.inline_data.data
InlineData(part) == "PNG"

\* What one call of client_img.models.generate_content can do: raise, or
\* return a response that is empty at one of the levels the code probes, or
\* one whose first candidate has parts.
Responses ==
    { [kind |-> k, parts |-> <<>>] :
        k \in {"raise", "no_resp", "no_candidates", "no_content", "no_parts"} }
    \cup { [kind |-> "parts", parts |-> <<a>>] : a \in PartKinds }
    \cup { [kind |-> "parts", parts |-> <<a, b>>] : a \in PartKinds, b \in PartKinds }

\* the call raised (except Exception: sleep; continue)
Raised(resp) == resp.kind = "raise"

\* resp and resp.candidates and cand0.content and cand0.content.parts
ReachesParts(resp) == resp.kind = "parts"

\* faulty variant: the first part is returned whatever it is
FirstInlineAny(parts) == IF parts = <<>> THEN 0 ELSE 1

\* index of the first part with inline_data, 0 when there is none
FirstInline(parts) ==
    IF \E k \in 1..Len(parts) : HasInlineData(parts[k])
    THEN CHOOSE k \in 1..Len(parts) :
            /\ HasInlineData(parts[k])
            /\ \A j \in 1..(k - 1) : ~HasInlineData(parts[j])
    ELSE 0

\* the response makes this iteration return
Returns(resp) ==
    /\ ~Raised(resp)
    /\ ReachesParts(resp)
    /\ FirstInline(resp.parts) # 0

\* the value returned by that iteration
Returned(resp) == InlineData(resp.parts[FirstInline(resp.parts)])

\* faulty variant: one attempt more than tries
LoopContinuesOffByOne(n, made) == made <= n

\* `for _ in range(tries)` has another iteration after `made` iterations
LoopContinues(n, made) == made < n

\* gerar_imagem against a capability whose k-th call answers answers[k]:
\* [ret |-> the return value, calls |-> the number of calls made]
RECURSIVE GerarImagemFrom(_, _, _)
GerarImagemFrom(answers, n, made) ==
    IF ~LoopContinues(n, made) THEN [ret |-> "None", calls |-> made]
    ELSE IF Returns(answers[made + 1])
         THEN [ret |-> Returned(answers[made + 1]), calls |-> made + 1]
         ELSE GerarImagemFrom(answers, n, made + 1)

GerarImagem(answers, n) == GerarImagemFrom(answers, n, 0)

\* agrupar_blocos not running
SegParked ==
    /\ subs = <<>>
    /\ min_w = 1
    /\ max_w = 1
    /\ s_i = 1
    /\ blocos = <<>>
    /\ txt = <<>>
    /\ start = NoStart
    /\ seg_pc = "done"
    /\ closedAt = <<>>

InitGen ==
    /\ SegParked
    /\ SesParked
    /\ PrParked
    /\ tries \in 0..MaxTries
    /\ g_log = <<>>
    /\ g_ret = "None"
    /\ g_pc = "loop"

\* one iteration of the retry loop: the call, then return or sleep
GenAttempt ==
    /\ g_pc = "loop"
    /\ LoopContinues(tries, Len(g_log))
    /\ \E resp \in Responses :
          /\ g_log' = Append(g_log, resp)
          /\ IF Returns(resp)
             THEN g_ret' = Returned(resp) /\ g_pc' = "returned"
             ELSE UNCHANGED <<g_ret, g_pc>>
    /\ UNCHANGED tries
    /\ UNCHANGED <<varsSeg, varsSes, varsPr>>

\* the loop ran out: return None
GenExhausted ==
    /\ g_pc = "loop"
    /\ ~LoopContinues(tries, Len(g_log))
    /\ g_ret' = "None"
    /\ g_pc' = "returned"
    /\ UNCHANGED <<tries, g_log>>
    /\ UNCHANGED <<varsSeg, varsSes, varsPr>>

NextGen == GenAttempt \/ GenExhausted

SpecGen == InitGen /\ [][NextGen]_vars

\* gerar_imagem is straight-line code around calls that return or raise:
\* whenever a step of the function is possible, it is eventually taken
SpecGenFair == SpecGen /\ WF_vars(NextGen)

-----------------------------------------------------------------------------
(* gerar_prompt on its own *)

\* block texts: shorter than, as long as, and longer than texto[:10]
PromptTexts ==
    { <<"a">>,
      <<"b", " ", "c">>,
      <<"s", "u", "n">>,
      <<"a", "b", "c", "d", "e", "f", "g", "h", "i", "j">>,
      <<"a", "b", "c", "d", "e", "f", "g", "h", "i", "j", " ", "k", "l", "m">> }

\* What the rewrite call can answer: an exception; no text or an empty one;
\* texts that clean to nothing; echoes of the input, whole or of its first
\* ten or nine characters, bare, labelled, or after a blank; rewrites
PromptAnswers(texto) ==
    { [kind |-> "raise", text |-> <<>>] }
    \cup { [kind |-> "text", text |-> t] :
             t \in { <<>>,
                     <<" ", " ", "\n">>,
                     <<"*", "*">>,
                     texto \o <<" ", "x">>,
                     Take(texto, EchoPrefixLen) \o <<"z", "z">>,
                     Take(texto, EchoPrefixLen - 1) \o <<"z", "z">>,
                     <<"*", "*", "P", "r", "o", "m", "p", "t", ":", "*", "*", " ">> \o texto,
                     <<" ">> \o texto,
                     <<"x">> \o texto,
                     <<"*", "*", "P", "r", "o", "m", "p", "t", ":", "*", "*", " ", "s", "u", "n", "\n">>,
                     <<"H", "e", "r", "e", "'", "s", " ", "a", " ", "p", "r", "o", "m", "p", "t", ":", " ", "r", "e", "d", " ", " ", "s", "k", "y">> } }

InitPrompt ==
    /\ SegParked
    /\ GenParked
    /\ SesParked
    /\ p_app \in {"SRTPlay", "SRTPlayMini"}
    /\ p_texto \in PromptTexts
    /\ p_rw = [kind |-> "raise", text |-> <<>>]
    /\ p_ret = <<>>
    /\ p_pc = "entry"

\* gerar_prompt(client_txt, texto), the rewrite call answering rw
PromptReturn ==
    /\ p_pc = "entry"
    /\ \E rw \in PromptAnswers(p_texto) :
          /\ p_rw' = rw
          /\ p_ret' = gerar_prompt(p_app, p_texto, rw)
    /\ p_pc' = "returned"
    /\ UNCHANGED <<p_app, p_texto>>
    /\ UNCHANGED <<varsSeg, varsGen, varsSes>>

NextPrompt == PromptReturn

SpecPrompt == InitPrompt /\ [][NextPrompt]_vars

-----------------------------------------------------------------------------
(* The session: "Gerar Imagens" (run_all) and "Reprocessar falhas"         *)
(* (reprocess_failed)                                                      *)

\* tag(t): hours, minutes, seconds and milliseconds of the offset t (in ms);
\* the zero-padded decimal fields of the format string are kept as numbers
tag(t) ==
    <<t \div 3600000, (t % 3600000) \div 60000, (t % 60000) \div 1000, t % 1000>>

\* f"{tag(blk['start'])}-{tag(blk['end'])}"
KeyOf(blk) == <<tag(blk.start), tag(blk.end)>>

\* faulty variant: the block suffix counts from zero
FileNameFromZero(key, k) == [key |-> key, b |-> k - 1]

\* f"{key}_B{i}.png"
FileName(key, k) == [key |-> key, b |-> k]

\* tries: int = 50
DefaultTries == 50

\* A capability that answers `bad` until call number n and an image from
\* then on (never, when n > DefaultTries)
Answers(bad, n) ==
    [k \in 1..DefaultTries |->
        IF k < n THEN bad ELSE [kind |-> "parts", parts |-> <<"text", "image">>]]

ImageAnswers ==
    { Answers(bad, n) :
        bad \in { [kind |-> "raise", parts |-> <<>>],
                  [kind |-> "parts", parts |-> <<"text">>] },
        n \in {1, DefaultTries, DefaultTries + 1} }

\* How image generation can end for one block: SRTPlay calls gerar_imagem
\* (bytes or None), SRTPlayMini calls gerar_imagem_replicate (bytes, or an
\* exception).
GerarImagemResults == { GerarImagem(a, DefaultTries).ret : a \in ImageAnswers }

GenResults(ap) ==
    IF ap = "SRTPlay" THEN GerarImagemResults ELSE { "PNG", "raise" }

\* run_all gives the block up: `if img_bytes is None` / `except Exception`
RunAllSkips(ap, r) == IF ap = "SRTPlay" THEN r = "None" ELSE r = "raise"

\* faulty variant: reprocess_failed gives every block up
ReprocessSkipsAll(ap, r) == TRUE

\* reprocess_failed gives the block up: `if img_bytes:` fails / `except Exception`
ReprocessSkips(ap, r) ==
    IF ap = "SRTPlay" THEN r \in {"None", ""} ELSE r = "raise"

\* What the rewrite call can answer for the text texto: an exception, an
\* empty text, an echo of the input, a labelled prompt
RewriteAnswers(texto) ==
    { [kind |-> "raise", text |-> <<>>],
      [kind |-> "text", text |-> <<>>],
      [kind |-> "text", text |-> texto \o <<" ", "x">>],
      [kind |-> "text",
       text |-> <<"*", "*", "P", "r", "o", "m", "p", "t", ":", "*", "*", " ",
                  "s", "u", "n", "\n">>] }

\* the prompts the handlers can build for a block text:
\* SRTPlay: gerar_prompt(client_txt, blk["text"])
\* SRTPlayMini: gerar_prompt(...) if client_txt else blk["text"]
Prompts(ap, has_client, texto) ==
    IF ap = "SRTPlayMini" /\ ~has_client
    THEN { texto }
    ELSE { gerar_prompt(ap, texto, rw) : rw \in RewriteAnswers(texto) }

\* faulty variant: passing one of the two filters is enough
PassesFiltersEither(k, key, idxs, ts) ==
    \/ ~(idxs # {} /\ k \notin idxs)
    \/ ~(ts # {} /\ key \notin ts)

\* the two `continue` filters: the block is processed
PassesFilters(k, key, idxs, ts) ==
    /\ ~(idxs # {} /\ k \notin idxs)
    /\ ~(ts # {} /\ key \notin ts)

\* faulty variant: the name is compared without its block suffix
AlreadyGeneratedNoSuffix(items, key, k) ==
    \E n \in 1..Len(items) : items[n].name = FileName(key, 0)

\* any(item["name"] == f"{key}_B{i}.png" for item in st.session_state["imgs"])
AlreadyGenerated(items, key, k) ==
    \E n \in 1..Len(items) : items[n].name = FileName(key, k)

\* faulty variant: the new item goes first
AddItemFirst(items, item) == <<item>> \o items

\* st.session_state["imgs"].append(item)
AddItem(items, item) == Append(items, item)

\* a block warning: the messages name the block index and its key
\* (f"Bloco {i} ({key}) ...", f"Retry {i} ({key}) falhou: {e}")
Report(k, key) == [block |-> k, key |-> key]

\* run_all on a skipped block: st.warning(...) in both scripts
RunAllWarns(ap, log, k, key) == Append(log, Report(k, key))

\* reprocess_failed on a block that fails again: SRTPlay has no else branch
\* to `if img_bytes:` and shows nothing; SRTPlayMini warns in its except
ReprocessWarns(ap, log, k, key) ==
    IF ap = "SRTPlay" THEN log ELSE Append(log, Report(k, key))

\* faulty variant: a skipped block ends the loop
AfterSkipBreak(k, n) == n + 1

\* `continue` after a skipped block: the loop goes on with the next block
AfterSkip(k, n) == k + 1

\* the archive: zf.writestr(itm["name"], itm["bytes"]) for each item, in order
ZipEntries(items) == [n \in 1..Len(items) |-> items[n].name]

\* prompts.txt: f"{itm['name']}: {itm['prompt']}" for each item, in order
PromptsTxt(items) == [n \in 1..Len(items) |-> <<items[n].name, items[n].prompt>>]

\* the sidebar filters a user can have typed
IdxFilters == { {}, {1}, {2, 3} }

TsFilters ==
    { {},
      { KeyOf([start |-> 1, end |-> 2]), KeyOf([start |-> 7, end |-> 8]) } }

\* the subtitle entries of the uploaded files
UploadEntries ==
    { [start |-> 0, end |-> 1, text |-> <<"a">>],
      [start |-> 1, end |-> 2, text |-> <<"b", "\n", "c">>] }

Uploads == UNION { [1..n -> UploadEntries] : n \in 0..MaxUpload }

\* subs = pysrt.from_string(...); blocos = agrupar_blocos(subs, min_w, max_w)
\* over the uploads and the word limits of the sidebar
SegmentedUploads ==
    { AgruparBlocos(up, lim[1], lim[2]) :
        up \in Uploads,
        lim \in { l \in (1..MaxW) \X (1..MaxW) : l[1] <= l[2] } }

\* the texts of the blocks of the uploads
BlockTexts ==
    UNION { { bl[k].text : k \in 1..Len(bl) } : bl \in SegmentedUploads }

\* Prompts, tabulated over the scripts, the presence of a text client and the
\* block texts
PromptTable ==
    [ap \in {"SRTPlay", "SRTPlayMini"}, has_client \in BOOLEAN, texto \in BlockTexts |->
        Prompts(ap, has_client, texto)]

AllOf(n, v) == [k \in 1..n |-> v]

Init ==
    /\ SegParked
    /\ GenParked
    /\ PrParked
    /\ app \in {"SRTPlay", "SRTPlayMini"}
    /\ client_txt \in BOOLEAN
    /\ app = "SRTPlay" => client_txt
    /\ imgs = <<>>
    /\ st_blocos = <<>>
    /\ selected_idxs = {}
    /\ selected_ts = {}
    /\ pc = "idle"
    /\ i = 1
    /\ gen_calls = <<>>
    /\ outcome = <<>>
    /\ status = <<>>
    /\ imgs0 = <<>>
    /\ status0 = <<>>
    /\ warned = <<>>
    /\ built = <<>>
    /\ handed = NoCall

\* faulty variant: the stored block list survives the reset
RunAllResetKeepsBlocks ==
    /\ pc = "idle"
    /\ imgs' = <<>>
    /\ st_blocos' = st_blocos
    /\ gen_calls' = <<>>
    /\ outcome' = <<>>
    /\ status' = <<>>
    /\ pc' = "run_all_reset"
    /\ status0' = status
    /\ UNCHANGED <<app, client_txt, selected_idxs, selected_ts, i, imgs0>>
    /\ warned' = <<>>
    /\ built' = <<>>
    /\ handed' = NoCall
    /\ UNCHANGED <<varsSeg, varsGen, varsPr>>

\* "Gerar Imagens" pressed: both session lists are emptied first
RunAllReset ==
    /\ pc = "idle"
    /\ imgs' = <<>>
    /\ st_blocos' = <<>>
    /\ gen_calls' = <<>>
    /\ outcome' = <<>>
    /\ status' = <<>>
    /\ pc' = "run_all_reset"
    /\ status0' = status
    /\ UNCHANGED <<app, client_txt, selected_idxs, selected_ts, i, imgs0>>
    /\ warned' = <<>>
    /\ built' = <<>>
    /\ handed' = NoCall
    /\ UNCHANGED <<varsSeg, varsGen, varsPr>>

\* no file was uploaded: warning, st.stop()
RunAllNoUpload ==
    /\ pc = "run_all_reset"
    /\ pc' = "idle"
    /\ status0' = <<>>
    /\ UNCHANGED <<app, client_txt, imgs, st_blocos, selected_idxs, selected_ts,
                   i, gen_calls, outcome, status, imgs0>>
    /\ UNCHANGED <<warned, built, handed>>
    /\ UNCHANGED <<varsSeg, varsGen, varsPr>>

\* a file was uploaded: parse, segment, store, enter the loop
RunAllStart ==
    /\ pc = "run_all_reset"
    /\ \E bl \in SegmentedUploads :
          /\ st_blocos' = bl
          /\ gen_calls' = AllOf(Len(bl), 0)
          /\ outcome' = AllOf(Len(bl), "not_called")
          /\ status' = AllOf(Len(bl), "Pending")
    /\ \E idxs \in IdxFilters, ts \in TsFilters :
          selected_idxs' = idxs /\ selected_ts' = ts
    /\ pc' = "run_all"
    /\ i' = 1
    /\ status0' = <<>>
    /\ UNCHANGED <<app, client_txt, imgs, imgs0>>
    /\ built' = AllOf(Len(st_blocos'), 0)
    /\ UNCHANGED <<warned, handed>>
    /\ UNCHANGED <<varsSeg, varsGen, varsPr>>

\* run_all, a block that a filter excludes
RunAllFiltered ==
    /\ pc = "run_all"
    /\ i <= Len(st_blocos)
    /\ ~PassesFilters(i, KeyOf(st_blocos[i]), selected_idxs, selected_ts)
    /\ i' = i + 1
    /\ UNCHANGED <<app, client_txt, imgs, st_blocos, selected_idxs, selected_ts,
                   pc, gen_calls, outcome, status, imgs0, status0>>
    /\ UNCHANGED <<warned, built, handed>>
    /\ UNCHANGED <<varsSeg, varsGen, varsPr>>

\* run_all, a block whose generation gives no image: warning, continue
RunAllSkip ==
    /\ pc = "run_all"
    /\ i <= Len(st_blocos)
    /\ PassesFilters(i, KeyOf(st_blocos[i]), selected_idxs, selected_ts)
    /\ \E prompt \in PromptTable[app, client_txt, st_blocos[i].text],
          r \in GenResults(app) :
          /\ RunAllSkips(app, r)
          /\ handed' = [block |-> i, prompt |-> prompt]
          /\ outcome' = [outcome EXCEPT ![i] = "skip"]
    /\ gen_calls' = [gen_calls EXCEPT ![i] = @ + 1]
    /\ status' = [status EXCEPT ![i] = "Skipped"]
    /\ i' = AfterSkip(i, Len(st_blocos))
    /\ UNCHANGED <<app, client_txt, imgs, st_blocos, selected_idxs, selected_ts,
                   pc, imgs0, status0>>
    /\ built' = [built EXCEPT ![i] = @ + 1]
    /\ warned' = RunAllWarns(app, warned, i, KeyOf(st_blocos[i]))
    /\ UNCHANGED <<varsSeg, varsGen, varsPr>>

\* run_all, a block whose generation gives an image: the item is appended
RunAllAppend ==
    /\ pc = "run_all"
    /\ i <= Len(st_blocos)
    /\ PassesFilters(i, KeyOf(st_blocos[i]), selected_idxs, selected_ts)
    /\ \E prompt \in PromptTable[app, client_txt, st_blocos[i].text],
          r \in GenResults(app) :
          /\ ~RunAllSkips(app, r)
          /\ imgs' = AddItem(imgs, [name |-> FileName(KeyOf(st_blocos[i]), i),
                                    bytes |-> r, prompt |-> prompt])
          /\ handed' = [block |-> i, prompt |-> prompt]
    /\ outcome' = [outcome EXCEPT ![i] = "image"]
    /\ gen_calls' = [gen_calls EXCEPT ![i] = @ + 1]
    /\ status' = [status EXCEPT ![i] = "Succeeded"]
    /\ i' = i + 1
    /\ UNCHANGED <<app, client_txt, st_blocos, selected_idxs, selected_ts,
                   pc, imgs0, status0>>
    /\ built' = [built EXCEPT ![i] = @ + 1]
    /\ UNCHANGED warned
    /\ UNCHANGED <<varsSeg, varsGen, varsPr>>

\* run_all, after the loop
RunAllEnd ==
    /\ pc = "run_all"
    /\ i > Len(st_blocos)
    /\ pc' = "idle"
    /\ i' = 1
    /\ selected_idxs' = {}
    /\ selected_ts' = {}
    /\ gen_calls' = <<>>
    /\ outcome' = <<>>
    /\ imgs0' = <<>>
    /\ status0' = <<>>
    /\ UNCHANGED <<app, client_txt, imgs, st_blocos, status>>
    /\ warned' = <<>>
    /\ built' = <<>>
    /\ handed' = NoCall
    /\ UNCHANGED <<varsSeg, varsGen, varsPr>>

\* "Reprocessar falhas" pressed; the button exists only with stored blocks
ReprocessStart ==
    /\ pc = "idle"
    /\ st_blocos # <<>>
    /\ \E idxs \in IdxFilters, ts \in TsFilters :
          selected_idxs' = idxs /\ selected_ts' = ts
    /\ gen_calls' = AllOf(Len(st_blocos), 0)
    /\ outcome' = AllOf(Len(st_blocos), "not_called")
    /\ imgs0' = imgs
    /\ status0' = status
    /\ pc' = "reprocess"
    /\ i' = 1
    /\ UNCHANGED <<app, client_txt, imgs, st_blocos, status>>
    /\ built' = AllOf(Len(st_blocos), 0)
    /\ UNCHANGED <<warned, handed>>
    /\ UNCHANGED <<varsSeg, varsGen, varsPr>>

\* reprocess_failed, a block that already has its image
ReprocessExisting ==
    /\ pc = "reprocess"
    /\ i <= Len(st_blocos)
    /\ AlreadyGenerated(imgs, KeyOf(st_blocos[i]), i)
    /\ i' = i + 1
    /\ UNCHANGED <<app, client_txt, imgs, st_blocos, selected_idxs, selected_ts,
                   pc, gen_calls, outcome, status, imgs0, status0>>
    /\ UNCHANGED <<warned, built, handed>>
    /\ UNCHANGED <<varsSeg, varsGen, varsPr>>

\* reprocess_failed, a block without image that a filter excludes
ReprocessFiltered ==
    /\ pc = "reprocess"
    /\ i <= Len(st_blocos)
    /\ ~AlreadyGenerated(imgs, KeyOf(st_blocos[i]), i)
    /\ ~PassesFilters(i, KeyOf(st_blocos[i]), selected_idxs, selected_ts)
    /\ i' = i + 1
    /\ UNCHANGED <<app, client_txt, imgs, st_blocos, selected_idxs, selected_ts,
                   pc, gen_calls, outcome, status, imgs0, status0>>
    /\ UNCHANGED <<warned, built, handed>>
    /\ UNCHANGED <<varsSeg, varsGen, varsPr>>

\* reprocess_failed, a block whose generation gives no image again
ReprocessSkip ==
    /\ pc = "reprocess"
    /\ i <= Len(st_blocos)
    /\ ~AlreadyGenerated(imgs, KeyOf(st_blocos[i]), i)
    /\ PassesFilters(i, KeyOf(st_blocos[i]), selected_idxs, selected_ts)
    /\ \E prompt \in PromptTable[app, client_txt, st_blocos[i].text],
          r \in GenResults(app) :
          /\ ReprocessSkips(app, r)
          /\ handed' = [block |-> i, prompt |-> prompt]
          /\ outcome' = [outcome EXCEPT ![i] = "skip"]
    /\ gen_calls' = [gen_calls EXCEPT ![i] = @ + 1]
    /\ status' = [status EXCEPT ![i] = "Skipped"]
    /\ i' = i + 1
    /\ UNCHANGED <<app, client_txt, imgs, st_blocos, selected_idxs, selected_ts,
                   pc, imgs0, status0>>
    /\ built' = [built EXCEPT ![i] = @ + 1]
    /\ warned' = ReprocessWarns(app, warned, i, KeyOf(st_blocos[i]))
    /\ UNCHANGED <<varsSeg, varsGen, varsPr>>

\* reprocess_failed, a block whose generation now gives an image
ReprocessAppend ==
    /\ pc = "reprocess"
    /\ i <= Len(st_blocos)
    /\ ~AlreadyGenerated(imgs, KeyOf(st_blocos[i]), i)
    /\ PassesFilters(i, KeyOf(st_blocos[i]), selected_idxs, selected_ts)
    /\ \E prompt \in PromptTable[app, client_txt, st_blocos[i].text],
          r \in GenResults(app) :
          /\ ~ReprocessSkips(app, r)
          /\ imgs' = AddItem(imgs, [name |-> FileName(KeyOf(st_blocos[i]), i),
                                    bytes |-> r, prompt |-> prompt])
          /\ handed' = [block |-> i, prompt |-> prompt]
    /\ outcome' = [outcome EXCEPT ![i] = "image"]
    /\ gen_calls' = [gen_calls EXCEPT ![i] = @ + 1]
    /\ status' = [status EXCEPT ![i] = "Succeeded"]
    /\ i' = i + 1
    /\ UNCHANGED <<app, client_txt, st_blocos, selected_idxs, selected_ts,
                   pc, imgs0, status0>>
    /\ built' = [built EXCEPT ![i] = @ + 1]
    /\ UNCHANGED warned
    /\ UNCHANGED <<varsSeg, varsGen, varsPr>>

\* reprocess_failed, after the loop
ReprocessEnd ==
    /\ pc = "reprocess"
    /\ i > Len(st_blocos)
    /\ pc' = "idle"
    /\ i' = 1
    /\ selected_idxs' = {}
    /\ selected_ts' = {}
    /\ gen_calls' = <<>>
    /\ outcome' = <<>>
    /\ imgs0' = <<>>
    /\ status0' = <<>>
    /\ UNCHANGED <<app, client_txt, imgs, st_blocos, status>>
    /\ warned' = <<>>
    /\ built' = <<>>
    /\ handed' = NoCall
    /\ UNCHANGED <<varsSeg, varsGen, varsPr>>

Next ==
    \/ RunAllReset
    \/ RunAllNoUpload
    \/ RunAllStart
    \/ RunAllFiltered
    \/ RunAllSkip
    \/ RunAllAppend
    \/ RunAllEnd
    \/ ReprocessStart
    \/ ReprocessExisting
    \/ ReprocessFiltered
    \/ ReprocessSkip
    \/ ReprocessAppend
    \/ ReprocessEnd

Spec == Init /\ [][Next]_vars

-----------------------------------------------------------------------------
(* The session when, after one "Gerar Imagens" that stored blocks, only     *)
(* "Reprocessar falhas" is pressed, with the filter fields empty            *)

\* "Gerar Imagens" pressed while no block list is stored
RunAllFirst == st_blocos = <<>> /\ RunAllReset

\* "Reprocessar falhas" pressed with both filter fields empty
ReprocessStartAll ==
    /\ ReprocessStart
    /\ selected_idxs' = {}
    /\ selected_ts' = {}

\* the upload gives at most MaxConv blocks
RunAllStartConv == RunAllStart /\ Len(st_blocos') <= MaxConv

\* the statements of run_all after the reset
RunAllStep ==
    \/ RunAllNoUpload
    \/ RunAllStartConv
    \/ RunAllFiltered
    \/ RunAllSkip
    \/ RunAllAppend
    \/ RunAllEnd

\* the statements of reprocess_failed; no block is filtered out
ReprocessStep ==
    \/ ReprocessExisting
    \/ ReprocessSkip
    \/ ReprocessAppend
    \/ ReprocessEnd

NextConv == RunAllFirst \/ RunAllStep \/ ReprocessStartAll \/ ReprocessStep

\* A handler that has started runs to its end (sequential code around calls
\* that return); the reprocess button is pressed again and again; and for each
\* block, generation does not fail for ever.
SpecConv ==
    /\ Init
    /\ [][NextConv]_vars
    /\ WF_vars(RunAllStep)
    /\ WF_vars(ReprocessStep)
    /\ WF_vars(ReprocessStartAll)
    /\ \A k \in 1..MaxConv : SF_vars(ReprocessAppend /\ i = k)

-----------------------------------------------------------------------------
(* Properties of the session *)

\* block k passes the filters of the running handler
Eligible(k) == PassesFilters(k, KeyOf(st_blocos[k]), selected_idxs, selected_ts)

\* the file names of the blocks 1..n in S, by increasing block index
RECURSIVE NamesOf(_, _)
NamesOf(S, n) ==
    IF n = 0 THEN <<>>
    ELSE NamesOf(S, n - 1)
         \o (IF n \in S THEN <<FileName(KeyOf(st_blocos[n]), n)>> ELSE <<>>)

IsPrefix(a, b) == Len(a) <= Len(b) /\ SubSeq(b, 1, Len(a)) = a

AllBlocks == 1..Len(st_blocos)

\* the block indices that the items of a result set carry in their names
BlocksIn(items) == { items[n].name.b : n \in 1..Len(items) }

\* C4: while run_all runs, every block already passed by the loop was
\* generated exactly once if it passes the filters and not at all otherwise,
\* whatever happened to the blocks before it, and the result set holds exactly
\* the passed blocks whose generation gave an image, by increasing index.
C4_PartialFailure ==
    pc = "run_all" =>
        /\ i <= Len(st_blocos) + 1
        /\ \A k \in AllBlocks :
              gen_calls[k] = IF k < i /\ Eligible(k) THEN 1 ELSE 0
        /\ \A k \in AllBlocks :
              (outcome[k] # "not_called") <=> (k < i /\ Eligible(k))
        /\ ZipEntries(imgs) =
              NamesOf({ k \in AllBlocks : outcome[k] = "image" }, Len(st_blocos))

\* three blocks, the second skipped: the run ends with blocks 1 and 3
C4_Witness ==
    /\ pc = "run_all"
    /\ Len(st_blocos) = 3
    /\ i = 4
    /\ outcome = <<"image", "skip", "image">>
    /\ Len(imgs) = 2
    /\ imgs[1].name.b = 1
    /\ imgs[2].name.b = 3

\* C5 as claimed: when no block is Skipped at the time reprocess_failed is
\* invoked, it generates nothing and leaves the result set as it was.
C5_NoSkippedUnchanged ==
    (pc = "reprocess" /\ \A k \in AllBlocks : status0[k] # "Skipped") =>
        /\ imgs = imgs0
        /\ \A k \in AllBlocks : gen_calls[k] = 0

\* C5 (amended): when every stored block has an artifact in the result set at
\* the time reprocess_failed is invoked, it generates nothing and leaves the
\* result set as it was, whatever the filters.
C5_AllDoneUnchanged ==
    (pc = "reprocess" /\ BlocksIn(imgs0) = AllBlocks) =>
        /\ imgs = imgs0
        /\ \A k \in AllBlocks : gen_calls[k] = 0

\* reprocess_failed has passed all of three blocks, each of which had its
\* artifact, under non-empty filters
C5_Witness ==
    /\ pc = "reprocess"
    /\ Len(st_blocos) = 3
    /\ i = 4
    /\ BlocksIn(imgs0) = AllBlocks
    /\ selected_idxs # {}
    /\ \A k \in AllBlocks : status0[k] = "Succeeded"

\* C6: reprocess_failed never generates for a block that had an artifact when
\* it was invoked, nor twice for one block; the result set it found is a
\* prefix of the result set it leaves; and no two items of the result set
\* belong to the same block.
C6_NeverRedone ==
    /\ pc = "reprocess" =>
          /\ \A k \in AllBlocks :
                /\ gen_calls[k] <= 1
                /\ gen_calls[k] = 1 => k \notin BlocksIn(imgs0)
          /\ IsPrefix(imgs0, imgs)
    /\ \A n, m \in 1..Len(imgs) : n # m => imgs[n].name.b # imgs[m].name.b

\* a reprocessing pass that found the artifact of block 2, left it alone, and
\* appended one for block 1
C6_Witness ==
    /\ pc = "reprocess"
    /\ i > Len(st_blocos)
    /\ Len(imgs0) = 1
    /\ imgs0[1].name.b = 2
    /\ Len(imgs) = 2
    /\ imgs[2].name.b = 1
    /\ gen_calls[1] = 1
    /\ gen_calls[2] = 0

\* C7: between handlers, the archive and the prompt manifest list the
\* generated blocks by increasing block index.
C7_OriginalOrder ==
    pc = "idle" =>
        \A n, m \in 1..Len(imgs) :
            n < m => /\ ZipEntries(imgs)[n].b < ZipEntries(imgs)[m].b
                     /\ PromptsTxt(imgs)[n][1].b < PromptsTxt(imgs)[m][1].b

\* the warnings of the running handler that name block k and its key
ReportsOf(k) ==
    { n \in 1..Len(warned) : warned[n] = Report(k, KeyOf(st_blocos[k])) }

\* C11: while run_all or reprocess_failed runs, every block whose generation
\* failed in it has one warning of its own that names the block, and the loop
\* has gone on past the block.
C11_FailureReported ==
    pc \in {"run_all", "reprocess"} =>
        \A k \in AllBlocks :
            outcome[k] = "skip" =>
                /\ Cardinality(ReportsOf(k)) = 1
                /\ i > k

\* str.endswith
EndsWith(t, suf) ==
    /\ Len(suf) <= Len(t)
    /\ SubSeq(t, Len(t) - Len(suf) + 1, Len(t)) = suf

\* C12: every prompt handed to image generation, by run_all or by
\* reprocess_failed, ends with the style suffix of the script.
C12_StyleSuffix ==
    handed # NoCall => EndsWith(handed.prompt, STYLE_SUFFIX(app))

\* eligibility of block k as the filter rule words it
InFilters(k) ==
    /\ (selected_idxs = {} \/ k \in selected_idxs)
    /\ (selected_ts = {} \/ KeyOf(st_blocos[k]) \in selected_ts)

\* C15: while run_all or reprocess_failed runs, a block the loop has passed
\* had a prompt built and generation invoked (once each) exactly when it is in
\* both filters, an empty filter holding every block, and, in
\* reprocess_failed, had no artifact yet; and every item added to the result
\* set belongs to a block in both filters.
C15_FilterSemantics ==
    pc \in {"run_all", "reprocess"} =>
        /\ \A k \in AllBlocks :
              /\ built[k] = gen_calls[k]
              /\ gen_calls[k] =
                    IF k < i /\ InFilters(k) /\ k \notin BlocksIn(imgs0)
                    THEN 1 ELSE 0
        /\ \A n \in (Len(imgs0) + 1)..Len(imgs) : InFilters(imgs[n].name.b)
        /\ (selected_idxs = {} /\ selected_ts = {}) =>
              \A k \in AllBlocks : InFilters(k)

\* run_all over three blocks with both filters set: block 1 is only in the
\* key filter, block 2 only in the index filter, block 3 in both and generated
C15_Witness ==
    /\ pc = "run_all"
    /\ Len(st_blocos) = 3
    /\ i = 4
    /\ selected_idxs = {2, 3}
    /\ selected_ts # {}
    /\ KeyOf(st_blocos[1]) \in selected_ts
    /\ KeyOf(st_blocos[2]) \notin selected_ts
    /\ KeyOf(st_blocos[3]) \in selected_ts
    /\ gen_calls = <<0, 0, 1>>
    /\ built = <<0, 0, 1>>

\* C17: every item of the result set is named after a stored block, by that
\* block's key and its 1-based index, so a non-empty result set comes with a
\* non-empty stored block list; and reprocess_failed leaves the stored block
\* list as the last run_all stored it.
C17_StoredBlocksOnly ==
    /\ [](/\ \A n \in 1..Len(imgs) :
              /\ imgs[n].name.b \in 1..Len(st_blocos)
              /\ imgs[n].name.key = KeyOf(st_blocos[imgs[n].name.b])
          /\ imgs # <<>> => st_blocos # <<>>)
    /\ [][(pc = "reprocess" \/ pc' = "reprocess") => st_blocos' = st_blocos]_vars

\* reprocess_failed has added the artifact of block 3 to that of block 1,
\* under the keys of the stored blocks
C17_Witness ==
    /\ pc = "reprocess"
    /\ Len(st_blocos) = 3
    /\ Len(imgs0) = 1
    /\ Len(imgs) = 2
    /\ imgs[1].name = [key |-> KeyOf(st_blocos[1]), b |-> 1]
    /\ imgs[2].name = [key |-> KeyOf(st_blocos[3]), b |-> 3]
    /\ KeyOf(st_blocos[1]) # KeyOf(st_blocos[3])

\* C18: pressing "Gerar Imagens" first empties the result set and the stored
\* block list, whatever they held; while run_all runs, the result set holds
\* only items generated by this run; and when run_all stops for want of an
\* upload both lists are empty, and with an empty block list
\* reprocess_failed cannot be invoked.
C18_ResetFirst ==
    /\ [][(pc = "idle" /\ pc' \notin {"idle", "reprocess"}) =>
            /\ pc' = "run_all_reset"
            /\ imgs' = <<>>
            /\ st_blocos' = <<>>]_vars
    /\ [](pc = "run_all" =>
            BlocksIn(imgs) = { k \in AllBlocks : outcome[k] = "image" })
    /\ [][(pc = "run_all_reset" /\ pc' = "idle") =>
            /\ imgs' = <<>>
            /\ st_blocos' = <<>>]_vars
    /\ []((pc = "idle" /\ st_blocos = <<>>) => ~ENABLED ReprocessStart)

\* "Gerar Imagens" pressed on a session that held three blocks and two
\* results: both lists are empty before the upload is looked at
C18_Witness ==
    /\ pc = "run_all_reset"
    /\ status0 = <<"Succeeded", "Skipped", "Succeeded">>
    /\ status = <<>>
    /\ imgs = <<>>
    /\ st_blocos = <<>>

\* every stored block has exactly one artifact in the result set
AllDone ==
    /\ st_blocos # <<>>
    /\ BlocksIn(imgs) = AllBlocks
    /\ Len(imgs) = Len(st_blocos)

\* C20: once run_all has stored a non-empty block list, repeated
\* reprocess_failed with empty filters leads to a state where every block
\* has exactly one artifact; from there on the result set stays as it is and
\* no generation is invoked; and the set of blocks with an artifact never
\* shrinks from one step of reprocess_failed to the next.
C20_Converges ==
    /\ (pc = "idle" /\ st_blocos # <<>>) ~> (pc = "idle" /\ AllDone)
    /\ [][AllDone => (AllDone' /\ imgs' = imgs /\ handed' \in {handed, NoCall})]_vars
    /\ [][(pc \in {"idle", "reprocess"} /\ pc' \in {"idle", "reprocess"}) =>
            BlocksIn(imgs) \subseteq BlocksIn(imgs')]_vars

\* two blocks, the second generated before the first, both generated by now
C20_Witness ==
    /\ pc = "idle"
    /\ Len(st_blocos) = 2
    /\ AllDone
    /\ status = <<"Succeeded", "Succeeded">>
    /\ imgs[1].name.b = 2

-----------------------------------------------------------------------------
(* Properties of gerar_imagem *)

\* the response carries an image payload
CarriesImage(resp) ==
    /\ resp.kind = "parts"
    /\ \E k \in 1..Len(resp.parts) : resp.parts[k] = "image"

\* C3: at most `tries` calls are made; a value other than None is returned
\* only when the last call's response carried an image, and is that image;
\* and a call whose response carried no image (or that raised) is never the
\* last one before a return, unless it was call number `tries` and the
\* return value is None.
C3_RetryBound ==
    /\ Len(g_log) <= tries
    /\ (g_pc = "returned" /\ g_ret # "None") =>
          /\ g_log # <<>>
          /\ CarriesImage(g_log[Len(g_log)])
          /\ g_ret = "PNG"
    /\ \A k \in 1..Len(g_log) :
          ~CarriesImage(g_log[k]) =>
              \/ k < Len(g_log)
              \/ g_pc = "loop"
              \/ (k = tries /\ g_ret = "None")

\* a call that raised, then a response with only a text part, then a response
\* whose second part is the image: returned on the third and last try
C3_Witness ==
    /\ g_pc = "returned"
    /\ tries = 3
    /\ Len(g_log) = 3
    /\ g_log[1].kind = "raise"
    /\ g_log[2] = [kind |-> "parts", parts |-> <<"text">>]
    /\ g_log[3] = [kind |-> "parts", parts |-> <<"text", "image">>]
    /\ g_ret = "PNG"

\* C13: gerar_imagem returns eventually; no call is made after a call whose
\* response carried an image; and once it has returned, the value is None
\* exactly when `tries` calls were made and no response carried an image.
C13_RetryOutcome ==
    /\ <>(g_pc = "returned")
    /\ [](\A k \in 1..(Len(g_log) - 1) : ~CarriesImage(g_log[k]))
    /\ [](g_pc = "returned" =>
            (g_ret = "None" <=>
                /\ Len(g_log) = tries
                /\ \A k \in 1..Len(g_log) : ~CarriesImage(g_log[k])))

\* three tries, none with an image (an exception, a response without parts, a
\* text part only): None is returned after the third
C13_Witness ==
    /\ g_pc = "returned"
    /\ tries = 3
    /\ Len(g_log) = 3
    /\ g_log[1].kind = "raise"
    /\ g_log[2].kind = "no_parts"
    /\ g_log[3] = [kind |-> "parts", parts |-> <<"text">>]
    /\ g_ret = "None"

-----------------------------------------------------------------------------
(* Properties of agrupar_blocos *)

\* the words of entries a..b of ss, in order
RECURSIVE EntryWords(_, _, _)
EntryWords(ss, a, b) ==
    IF a > b THEN <<>> ELSE Words(ss[a].text) \o EntryWords(ss, a + 1, b)

\* the words of the texts of blocks a..b of bl, in order
RECURSIVE BlockWords(_, _, _)
BlockWords(bl, a, b) ==
    IF a > b THEN <<>> ELSE Words(bl[a].text) \o BlockWords(bl, a + 1, b)

WordCount(text) == Len(Words(text))

\* entry index at which block k closed; 0 before the first block
CloseOf(k) == IF k = 0 THEN 0 ELSE closedAt[k]

LastClose == CloseOf(Len(closedAt))

\* the entries in a..b that have at least one word
Wordy(a, b) == { k \in a..b : Words(subs[k].text) # <<>> }

FirstOf(S) == CHOOSE k \in S : \A j \in S : k <= j

HasTrailing == seg_pc = "done" /\ Len(blocos) > Len(closedAt)

\* C1: when agrupar_blocos returns, the words of the block texts, taken in
\* order, are exactly the words of the input entries, in order.
C1_Coverage ==
    seg_pc = "done" =>
        BlockWords(blocos, 1, Len(blocos)) = EntryWords(subs, 1, Len(subs))

\* C2: every block closed inside the loop has a non-empty text whose word
\* count lies in min_w..max_w (here 1 <= min_w <= max_w in every state).
C2_WordCount ==
    \A k \in 1..Len(closedAt) :
        /\ blocos[k].text # <<>>
        /\ min_w <= WordCount(blocos[k].text)
        /\ WordCount(blocos[k].text) <= max_w

\* a returned list with an in-loop block cut to max_w words and a trailing
\* block shorter than min_w
C2_Witness ==
    /\ seg_pc = "done"
    /\ Len(closedAt) >= 1
    /\ HasTrailing
    /\ \E k \in 1..Len(closedAt) :
          Len(EntryWords(subs, CloseOf(k - 1) + 1, CloseOf(k))) > max_w

\* C8: at return, a trailing block exists exactly when words are left over
\* from the entries after the last close; it holds all of them, its end is
\* the end of the last entry of the input; and an input without words gives
\* the empty list.
C8_Trailing ==
    seg_pc = "done" =>
        LET left == EntryWords(subs, LastClose + 1, Len(subs)) IN
        /\ Len(blocos) \in {Len(closedAt), Len(closedAt) + 1}
        /\ HasTrailing <=> left # <<>>
        /\ left = txt
        /\ HasTrailing =>
              /\ Words(blocos[Len(blocos)].text) = left
              /\ blocos[Len(blocos)].end = subs[Len(subs)].end
        /\ Wordy(1, Len(subs)) = {} => blocos = <<>>

\* a trailing block whose input ends with an entry without words, ending
\* later than the last entry that contributed
C8_Witness ==
    /\ HasTrailing
    /\ Len(closedAt) >= 1
    /\ Words(subs[Len(subs)].text) = <<>>
    /\ LET w == Wordy(1, Len(subs)) IN
          \A k \in w : subs[k].end # subs[Len(subs)].end

\* the empty input and the input without any word
C8_WitnessEmpty ==
    seg_pc = "done" /\ Len(subs) >= 2 /\ Wordy(1, Len(subs)) = {} /\ blocos = <<>>

\* the entries are in order, well-formed and do not overlap
OrderedInput ==
    /\ \A k \in 1..Len(subs) : subs[k].start <= subs[k].end
    /\ \A k \in 1..(Len(subs) - 1) : subs[k].end <= subs[k + 1].start

\* C9: on an ordered, non-overlapping input every block has start <= end and
\* consecutive blocks do not overlap.
C9_Monotone ==
    OrderedInput =>
        /\ \A k \in 1..Len(blocos) : blocos[k].start <= blocos[k].end
        /\ \A k \in 1..(Len(blocos) - 1) : blocos[k].end <= blocos[k + 1].start

\* three blocks (the last one trailing) from an ordered input
C9_Witness ==
    /\ OrderedInput
    /\ HasTrailing
    /\ Len(blocos) >= 3
    /\ blocos[1].end <= blocos[2].start

\* C10: a block closed inside the loop starts at the start of the first entry
\* with words since the previous close and ends at the end of the entry that
\* closed it; the pending start is None until an entry with words arrives and
\* is then that entry's start, whatever entries without words follow.
C10_BlockTimes ==
    /\ \A k \in 1..Len(closedAt) :
          /\ blocos[k].start =
                subs[FirstOf(Wordy(CloseOf(k - 1) + 1, CloseOf(k)))].start
          /\ blocos[k].end = subs[CloseOf(k)].end
    /\ seg_pc = "loop" =>
          LET w == Wordy(LastClose + 1, s_i - 1) IN
          start = IF w = {} THEN NoStart ELSE subs[FirstOf(w)].start

\* a block opened at the zero offset, closed two entries later, with an
\* entry without words in between
C10_Witness ==
    /\ Len(closedAt) >= 1
    /\ CloseOf(1) = 3
    /\ subs[1].start = 0
    /\ Words(subs[1].text) # <<>>
    /\ Words(subs[2].text) = <<>>
    /\ subs[3].start # 0
    /\ blocos[1].start = 0

\* the last entry before e at which a block closed; 0 when there is none
PrevClose(e) ==
    MaxOf({0} \cup { closedAt[j] : j \in { n \in 1..Len(closedAt) : closedAt[n] < e } })

\* the number of words of entries a..b
WordsIn(a, b) == Len(EntryWords(subs, a, b))

\* agrupar_blocos(subs, min_w=20, max_w=30)
DefaultMinW == 20

DefaultMaxW == 30

\* a text of n words
WordsText(n) == [k \in 1..(2 * n - 1) |-> IF k % 2 = 1 THEN "w" ELSE " "]

\* entries of 12, 9 and 15 words
ScenarioSubs ==
    << [start |-> 0, end |-> 1000, text |-> WordsText(12)],
       [start |-> 1000, end |-> 2000, text |-> WordsText(9)],
       [start |-> 2000, end |-> 3000, text |-> WordsText(15)] >>

ScenarioBlocks == AgruparBlocos(ScenarioSubs, DefaultMinW, DefaultMaxW)

\* start and end of each block of bl
Boundaries(bl) == [k \in 1..Len(bl) |-> <<bl[k].start, bl[k].end>>]

ScenarioBoundaries == Boundaries(ScenarioBlocks)

ScenarioWordCounts ==
    [k \in 1..Len(ScenarioBlocks) |-> WordCount(ScenarioBlocks[k].text)]

\* C14: a block closes at an entry exactly when the words accumulated since
\* the previous close reach min_w with that entry and had not before it; the
\* boundaries of the blocks returned are the same for every max_w; one entry
\* of at least min_w words gives one block, that entry's; and entries of 12,
\* 9 and 15 words with min_w = 20 give a block over entries 1..2 and a
\* trailing block over entry 3.
C14_ClosureRule ==
    /\ \A e \in 1..(s_i - 1) :
          (\E j \in 1..Len(closedAt) : closedAt[j] = e) <=>
              /\ WordsIn(PrevClose(e) + 1, e) >= min_w
              /\ WordsIn(PrevClose(e) + 1, e - 1) < min_w
    /\ seg_pc = "done" =>
          \A mx \in 0..MaxW :
              Boundaries(AgruparBlocos(subs, min_w, mx)) = Boundaries(blocos)
    /\ (seg_pc = "done" /\ Len(subs) = 1 /\ WordCount(subs[1].text) >= min_w) =>
          /\ closedAt = <<1>>
          /\ Boundaries(blocos) = << <<subs[1].start, subs[1].end>> >>
    /\ ScenarioBoundaries = << <<0, 2000>>, <<2000, 3000>> >>
    /\ ScenarioWordCounts = <<21, 15>>

\* three entries of one word each with min_w = 2 < max_w: a block closed at
\* entry 2 and the trailing block is entry 3
C14_Witness ==
    /\ seg_pc = "done"
    /\ Len(subs) = 3
    /\ \A k \in 1..3 : WordCount(subs[k].text) = 1
    /\ min_w = 2
    /\ max_w = 3
    /\ closedAt = <<2>>
    /\ Len(blocos) = 2

\* C19: a trailing block has at least one word and fewer than min_w; the
\* accumulator stays below min_w words in the loop and is empty, with no
\* pending start, right after an iteration that closed a block.
C19_TrailingShort ==
    /\ [](HasTrailing =>
            /\ WordCount(blocos[Len(blocos)].text) >= 1
            /\ WordCount(blocos[Len(blocos)].text) < min_w)
    /\ [](seg_pc = "loop" => Len(txt) < min_w)
    /\ [][(seg_pc' = "loop" /\ Len(blocos') > Len(blocos)) =>
            /\ txt' = <<>>
            /\ start' = NoStart]_vars

\* min_w = 3: a block closed at entry 2, and the two words of entry 3 make
\* the trailing block
C19_Witness ==
    /\ HasTrailing
    /\ min_w = 3
    /\ closedAt = <<2>>
    /\ Len(subs) = 3
    /\ WordCount(blocos[Len(blocos)].text) = 2

-----------------------------------------------------------------------------
(* Properties of gerar_prompt *)

\* the first n characters of t, all of t when it is shorter
FirstChars(t, n) == [k \in 1..(IF Len(t) < n THEN Len(t) ELSE n) |-> t[k]]

\* C16: gerar_prompt returns whatever the rewrite call does; when the call
\* raised, or its text is empty once cleaned, or the cleaned text starts with
\* the first 10 characters of the block text, the value is the block text,
\* ", " and the style suffix; otherwise it is the cleaned text.
C16_PromptFallback ==
    p_pc = "returned" =>
        LET cleaned == clean_prompt(p_rw.text)
            echo == IsPrefix(FirstChars(p_texto, 10), cleaned)
        IN IF p_rw.kind = "raise" \/ cleaned = <<>> \/ echo
           THEN p_ret = p_texto \o <<",", " ">> \o STYLE_SUFFIX(p_app)
           ELSE p_ret = cleaned /\ p_ret # <<>>

\* a labelled answer that repeats the first ten characters of a longer block
\* text and then differs: the fallback is returned
C16_Witness ==
    /\ p_pc = "returned"
    /\ Len(p_texto) > 10
    /\ p_rw.kind = "text"
    /\ clean_prompt(p_rw.text) = FirstChars(p_texto, 10) \o <<"z", "z">>
    /\ p_ret = Fallback(p_app, p_texto)

\* an answer that shares only nine characters with the block text is used
C16_WitnessUsed ==
    /\ p_pc = "returned"
    /\ Len(p_texto) > 10
    /\ p_rw.text = FirstChars(p_texto, 9) \o <<"z", "z">>
    /\ p_ret = p_rw.text

====
